---- MODULE Spec2Model ----
(***************************************************************************)
(* dsan-metadata-stripper (src/main.py): the entry point, the directory    *)
(* walker, the extension dispatcher and the three format handlers, as a    *)
(* state machine over a small file system.                                 *)
(***************************************************************************)
EXTENDS Integers, Sequences, FiniteSets, TLC

(* ------------------------------ bounds -------------------------------- *)
\* directories of the input tree: 0 is the input directory, 1..MaxDirs-1 below it
MaxDirs == 4
\* files placed freely, in the input tree and the output directory, before a walk
MaxFiles == 2
\* pages of a PDF document
MaxPages == 2

(* ------------------------------ names --------------------------------- *)
\* A file name is a sequence of characters.
NamePdf == <<"a", ".", "p", "d", "f">>
NamePdfUpper == <<"a", ".", "P", "D", "F">>
NameDocx == <<"a", ".", "D", "o", "c", "x">>
NameJpg == <<"a", ".", "J", "p", "g">>
NameJpeg == <<"a", ".", "j", "p", "e", "g">>
NamePng == <<"a", ".", "p", "n", "g">>
NameTxt == <<"b", ".", "t", "x", "t">>
NameTarPdf == <<"a", ".", "t", ".", "p", "d", "f">>
NamePdfTxt == <<"a", ".", "p", "d", "f", ".", "t", "x", "t">>
NameDotPdf == <<".", "p", "d", "f">>
NameBare == <<"p", "d", "f">>

AllNames == {NamePdf, NamePdfUpper, NameDocx, NameJpg, NameJpeg, NamePng, NameTxt,
             NameTarPdf, NamePdfTxt, NameDotPdf, NameBare}

\* str.lower() on the characters that occur
LowerChar(c) ==
    CASE c = "P" -> "p" [] c = "D" -> "d" [] c = "F" -> "f" [] c = "J" -> "j"
      [] c = "G" -> "g" [] c = "O" -> "o" [] c = "C" -> "c" [] c = "X" -> "x"
      [] c = "E" -> "e" [] c = "N" -> "n" [] c = "T" -> "t"
      [] OTHER -> c

Lower(s) == [i \in 1..Len(s) |-> LowerChar(s[i])]

\* str.rfind("."): the last index of a dot, 0 when there is none (1-based)
RFindDot(s) ==
    IF \E i \in 1..Len(s) : s[i] = "."
    THEN CHOOSE i \in 1..Len(s) : s[i] = "." /\ \A j \in (i+1)..Len(s) : s[j] # "."
    ELSE 0

\* pathlib's PurePath.suffix: from the last dot on, unless the dot leads or ends the name
Suffix(name) ==
    LET i == RFindDot(name)
    IN IF 1 < i /\ i < Len(name) THEN SubSeq(name, i, Len(name)) ELSE <<>>

ExtPdf == <<".", "p", "d", "f">>
ExtDocx == <<".", "d", "o", "c", "x">>
ExtJpg == <<".", "j", "p", "g">>
ExtJpeg == <<".", "j", "p", "e", "g">>
ExtPng == <<".", "p", "n", "g">>

\* a dispatcher that compares the extension as written
HandlerCaseSensitive(name) ==
    LET file_extension == Suffix(name)
    IN IF file_extension = ExtPdf THEN "PDF"
       ELSE IF file_extension = ExtDocx THEN "DOCX"
       ELSE IF file_extension \in {ExtJpg, ExtJpeg, ExtPng} THEN "image"
       ELSE "unsupported"

\* process_file's if/elif chain: which handler a file goes to
Handler(name) ==
    LET file_extension == Lower(Suffix(name))
    IN IF file_extension = ExtPdf THEN "PDF"
       ELSE IF file_extension = ExtDocx THEN "DOCX"
       ELSE IF file_extension \in {ExtJpg, ExtJpeg, ExtPng} THEN "image"
       ELSE "unsupported"

(* --------------------------- file contents ---------------------------- *)
\* What a file holds: its real format, its primary content (pages, paragraphs or
\* pixel data) and the names of the metadata fields embedded in it.
Doc(fmt, body, meta) == [fmt |-> fmt, body |-> body, meta |-> meta]

\* an output file that was opened for writing and never completed
PartialFile == Doc("partial", <<>>, {})

\* the fields strip_docx_metadata clears: six core properties and the comments
DocxCleared == {"author", "title", "subject", "keywords", "comments",
                "last_modified_by", "w:comment"}

\* the format each handler's library can load
FormatOf(handler) ==
    CASE handler = "PDF" -> "pdf" [] handler = "DOCX" -> "docx"
      [] handler = "image" -> "image" [] OTHER -> "none"

\* How a handler call can end. "load_fail": the library raises while loading the
\* source; "open_fail": the output cannot be opened; "write_fail": the output was
\* opened (created or truncated) and writing it raises; "ok". A source that is not
\* of the handler's format can only fail to load.
Outcomes(content, handler) ==
    IF content.fmt = FormatOf(handler)
    THEN {"load_fail", "open_fail", "write_fail", "ok"}
    ELSE {"load_fail"}

(* ------------------------------ logging ------------------------------- *)
LogRec(level, what, path) == [level |-> level, what |-> what, path |-> path]

\* What a handler or the dispatcher hands back: the file system after it, the one
\* record it logged, and whether an exception leaves it.
Result(fsys, rec, raised) == [fs |-> fsys, rec |-> rec, raised |-> raised]

\* open(path, "wb") / save(path): the path now holds f, whatever it held before
WriteFile(fsys, path, f) ==
    [p \in (DOMAIN fsys) \cup {path} |-> IF p = path THEN f ELSE fsys[p]]

(* --------------------------- PDF handler ------------------------------ *)
\* PdfWriter(): no pages, and the library's own info dictionary
NewPdfWriter == [pages |-> <<>>, info |-> {"producer"}]

\* for page in reader.pages: writer.add_page(page)
RECURSIVE AddPages(_, _, _)
AddPages(writer, pages, i) ==
    IF i > Len(pages) THEN writer
    ELSE AddPages([writer EXCEPT !.pages = Append(@, pages[i])], pages, i + 1)

\* a handler that leaves the writer's info dictionary in place
KeepInfo(writer) == writer

\* writer._info = None
RemoveInfo(writer) == [writer EXCEPT !.info = {}]

\* a handler whose except clause lets the exception go on
Reraised == TRUE

\* the exception a handler's body raised reaches only its own except clause
Caught == FALSE

strip_pdf_metadata(fsys, file_path, output_path, outcome) ==
    LET reader == fsys[file_path]
        writer == RemoveInfo(AddPages(NewPdfWriter, reader.body, 1))
        err == LogRec("ERROR", "PDF", file_path)
    IN CASE outcome = "load_fail" -> Result(fsys, err, Caught)
         [] outcome = "open_fail" -> Result(fsys, err, Caught)
         [] outcome = "write_fail" ->
                Result(WriteFile(fsys, output_path, PartialFile), err, Caught)
         [] OTHER ->
                Result(WriteFile(fsys, output_path,
                                 Doc("pdf", writer.pages, writer.info)),
                       LogRec("INFO", "PDF", file_path), FALSE)

(* --------------------------- DOCX handler ----------------------------- *)
\* doc.save(output_path) raising after the package file was opened leaves either
\* the incomplete file or, when the library cleans up, the path as it was.
SaveFailures(fsys, output_path) == {WriteFile(fsys, output_path, PartialFile), fsys}

strip_docx_metadata(fsys, file_path, output_path, outcome, left) ==
    LET doc == fsys[file_path]
        err == LogRec("ERROR", "DOCX", file_path)
    IN CASE outcome = "load_fail" -> Result(fsys, err, Caught)
         [] outcome = "open_fail" -> Result(fsys, err, Caught)
         [] outcome = "write_fail" -> Result(left, err, Caught)
         [] OTHER ->
                Result(WriteFile(fsys, output_path,
                                 Doc("docx", doc.body, doc.meta \ DocxCleared)),
                       LogRec("INFO", "DOCX", file_path), FALSE)

(* --------------------------- image handler ---------------------------- *)
strip_image_metadata(fsys, file_path, output_path, outcome, left) ==
    LET image == fsys[file_path]
        data == image.body
        err == LogRec("ERROR", "image", file_path)
    IN CASE outcome = "load_fail" -> Result(fsys, err, Caught)
         [] outcome = "open_fail" -> Result(fsys, err, Caught)
         [] outcome = "write_fail" -> Result(left, err, Caught)
         [] OTHER ->
                Result(WriteFile(fsys, output_path, Doc("image", data, {})),
                       LogRec("INFO", "image", file_path), FALSE)

(* ----------------------------- dispatcher ----------------------------- *)
\* a dispatcher that writes beside the source
OutputPathBesideSource(file_path, output_dir) == <<file_path[1], file_path[2]>>

\* A path is <<directory, name>>.
\* output_path = output_dir / file_path.name
OutputPath(file_path, output_dir) == <<output_dir, file_path[2]>>

process_file(fsys, file_path, output_dir, outcome, left) ==
    LET output_path == OutputPath(file_path, output_dir)
        h == Handler(file_path[2])
    IN CASE h = "PDF" -> strip_pdf_metadata(fsys, file_path, output_path, outcome)
         [] h = "DOCX" -> strip_docx_metadata(fsys, file_path, output_path, outcome, left)
         [] h = "image" -> strip_image_metadata(fsys, file_path, output_path, outcome, left)
         [] OTHER -> Result(fsys, LogRec("WARNING", "unsupported", file_path), FALSE)

(* ------------------------------- state -------------------------------- *)
VARIABLES
    fs,         \* the files: a function from paths <<directory, name>> to contents
    fs0,        \* the files as they were before the run
    exists,     \* the directories that exist
    exists0,    \* the directories that existed before the run
    par,        \* the parent of each directory of the input tree
    kind,       \* per directory: "dir", "link" (a symbolic link to a directory),
                \* "locked" (listing it raises OSError), "file" (the path is a file)
    inputKind,  \* what args.input_path is: "file", "dir" or "other"
    inputFile,  \* the input file's path when inputKind = "file"
    outDir,     \* args.output
    recursive,  \* args.recursive
    pc,         \* where main is: "start", "branch", "walk", "done", "crashed"
    stack,      \* os.walk: directories still to scan, next one first
    cur,        \* os.walk: the directory just yielded
    pending,    \* os.walk: the subdirectories listed in cur, not yet stacked
    todo,       \* the names of cur's files not yet dispatched
    visited,    \* the directories os.walk has yielded, in order
    log         \* the records logged, in order

vars == <<fs, fs0, exists, exists0, par, kind, inputKind, inputFile, outDir, recursive, pc,
          stack, cur, pending, todo, visited, log>>

Dirs == 0..(MaxDirs - 1)
\* a directory outside the input tree, and its parent
OutsideParent == MaxDirs
OutsideDir == MaxDirs + 1
AllDirs == 0..(MaxDirs + 1)
NoDir == -1

Parent(d) ==
    IF d = OutsideDir THEN OutsideParent
    ELSE IF d \in Dirs \ {0} THEN par[d]
    ELSE NoDir

RECURSIVE Ancestors(_)
Ancestors(d) ==
    IF Parent(d) = NoDir THEN {} ELSE {Parent(d)} \cup Ancestors(Parent(d))

RECURSIVE Depth(_)
Depth(d) == IF Parent(d) = NoDir THEN 0 ELSE 1 + Depth(Parent(d))

\* the orders in which a listing can return the members of S
Orders(S) ==
    {s \in [1..Cardinality(S) -> S] : \A i, j \in DOMAIN s : i # j => s[i] # s[j]}

FilesIn(fsys, d) == {p[2] : p \in {q \in DOMAIN fsys : q[1] = d}}

(* ------------------------------ Init ---------------------------------- *)
Trees == {f \in [Dirs \ {0} -> Dirs] : \A d \in Dirs \ {0} : f[d] < d}

PlainKinds == [d \in AllDirs |-> "dir"]

\* at most one directory of the input tree is a symbolic link or cannot be listed
Kinds ==
    {PlainKinds}
    \cup {[PlainKinds EXCEPT ![d] = "link"] : d \in Dirs \ {0}}
    \cup {[PlainKinds EXCEPT ![d] = "locked"] : d \in Dirs}

SmallSets(S, n) == {T \in SUBSET S : Cardinality(T) <= n}

\* the files of the walk scenarios: the content is told apart by the directory
\* the file lies in
TreeDoc(p) ==
    IF p[2] \in {NamePdf, NamePdfUpper} THEN Doc("pdf", <<p[1]>>, {"author"})
    ELSE Doc("junk", <<p[1]>>, {})

FileSets(dirs, names) ==
    {[p \in P |-> TreeDoc(p)] : P \in SmallSets(dirs \X names, MaxFiles)}

InitWalker ==
    /\ exists0 = exists
    /\ pc = "start"
    /\ stack = <<>>
    /\ cur = NoDir
    /\ pending = {}
    /\ todo = {}
    /\ visited = <<>>
    /\ log = <<>>

\* a directory tree of any shape, one directory of which may be a link or
\* unlistable, walked into an output directory outside it
InitTree ==
    /\ par \in Trees
    /\ kind \in Kinds
    /\ exists = AllDirs
    /\ fs \in FileSets(Dirs, {NamePdf})
    /\ fs0 = fs
    /\ outDir = OutsideDir
    /\ inputKind = "dir"
    /\ inputFile = <<NoDir, <<>>>>
    /\ recursive \in BOOLEAN
    /\ InitWalker

\* the directories that do not exist yet: none, the output directory, or the
\* output directory and its parent; a missing directory is empty
MissingOK(missing, f, t) ==
    /\ \A p \in DOMAIN f : p[1] \notin missing
    /\ \A d \in Dirs \ {0} : t[d] \in missing => d \in missing
    /\ 0 \notin missing

Missings(t, out) ==
    LET up == IF out = OutsideDir THEN OutsideParent
              ELSE IF out \in Dirs \ {0} THEN t[out] ELSE out
    IN {{}, {out}, {out, up}}

\* a directory tree walked into an output directory anywhere: outside the tree or
\* in it, existing (with files or not), missing, or a path that is a file
InitOut ==
    /\ par \in Trees
    /\ fs \in FileSets(Dirs \cup {OutsideDir}, {NamePdf})
    /\ fs0 = fs
    /\ outDir \in Dirs \cup {OutsideDir}
    /\ \E missing \in Missings(par, outDir) :
          /\ MissingOK(missing, fs, par)
          /\ exists = AllDirs \ missing
          /\ \/ kind = PlainKinds
             \/ outDir \in missing /\ kind = [PlainKinds EXCEPT ![outDir] = "file"]
    /\ inputKind = "dir"
    /\ inputFile = <<NoDir, <<>>>>
    /\ recursive \in BOOLEAN
    /\ InitWalker

\* a directory and its one subdirectory holding supported and unsupported files
InitFlat ==
    /\ par = [d \in Dirs \ {0} |-> 0]
    /\ kind = PlainKinds
    /\ exists = {0, 1, OutsideParent, OutsideDir}
    /\ fs \in FileSets({0, 1}, {NamePdfUpper, NameTxt})
    /\ fs0 = fs
    /\ outDir \in {0, OutsideDir}
    /\ inputKind = "dir"
    /\ inputFile = <<NoDir, <<>>>>
    /\ recursive \in BOOLEAN
    /\ InitWalker

\* a directory tree of any shape, walked recursively, with a PDF in the last
\* directory and an unsupported file in every other one; one directory may be a
\* link or unlistable
InitDeep ==
    /\ par \in Trees
    /\ kind \in Kinds
    /\ exists = AllDirs
    /\ fs = [p \in ((Dirs \ {MaxDirs - 1}) \X {NameTxt}) \cup {<<MaxDirs - 1, NamePdf>>}
                |-> TreeDoc(p)]
    /\ fs0 = fs
    /\ outDir = OutsideDir
    /\ inputKind = "dir"
    /\ inputFile = <<NoDir, <<>>>>
    /\ recursive = TRUE
    /\ InitWalker

BoundedSeqs(S, n) == UNION {[1..k -> S] : k \in 0..n}

\* one file: any name with any format, or a PDF of any pages and metadata
RouteFiles ==
    {<<name, Doc(fmt, <<1>>, {"author"})>> :
        name \in AllNames, fmt \in {"pdf", "docx", "image", "junk"}}
    \cup
    {<<name, Doc("pdf", body, meta)>> :
        name \in {NamePdf, NamePdfUpper},
        body \in BoundedSeqs(1..MaxPages, MaxPages),
        meta \in {{}, {"author"}, {"author", "title"}}}

\* one file, given by itself or in a directory, or an input path that is neither
InitRoute ==
    /\ par = [d \in Dirs \ {0} |-> 0]
    /\ kind = PlainKinds
    /\ exists = {0, 1, OutsideParent, OutsideDir}
    /\ \E d \in {0, 1}, f \in RouteFiles :
          /\ fs = [p \in {<<d, f[1]>>} |-> f[2]]
          /\ \/ inputKind = "file" /\ inputFile = <<d, f[1]>> /\ recursive = FALSE
             \/ inputKind = "dir" /\ inputFile = <<NoDir, <<>>>> /\ recursive \in BOOLEAN
             \/ /\ inputKind = "other" /\ inputFile = <<NoDir, <<>>>> /\ recursive = FALSE
                /\ d = 0 /\ f = <<NamePdf, Doc("pdf", <<1>>, {"author"})>>
    /\ fs0 = fs
    /\ outDir \in {0, OutsideDir}
    /\ InitWalker

Init == InitTree \/ InitOut \/ InitFlat \/ InitDeep \/ InitRoute

(* ------------------------------- main --------------------------------- *)
\* mkdir without parents=True
MkdirOnly(d, ex) == ex \cup {d}

\* Path.mkdir(parents=True, exist_ok=True): the directory and every missing
\* ancestor now exist; what existed stays
MkdirParents(d, ex) == ex \cup {d} \cup Ancestors(d)

\* main, up to the test of the input path: the output directory is made.
\* mkdir raises FileExistsError when the path is a file, and main ends there.
MainMkdir ==
    /\ pc = "start"
    /\ \/ /\ kind[outDir] = "file"
          /\ pc' = "crashed"
          /\ exists' = exists
       \/ /\ kind[outDir] # "file"
          /\ exists' = MkdirParents(outDir, exists)
          /\ pc' = "branch"
    /\ UNCHANGED <<fs, fs0, exists0, par, kind, inputKind, inputFile, outDir, recursive,
                   stack, cur, pending, todo, visited, log>>

\* if input_path.is_file(): process_file(input_path, output_dir)
MainFile ==
    /\ pc = "branch"
    /\ inputKind = "file"
    /\ \E outcome \in Outcomes(fs[inputFile], Handler(inputFile[2])) :
          \E left \in SaveFailures(fs, OutputPath(inputFile, outDir)) :
             LET r == process_file(fs, inputFile, outDir, outcome, left)
             IN /\ fs' = r.fs
                /\ log' = Append(log, r.rec)
                /\ pc' = IF r.raised THEN "crashed" ELSE "done"
    /\ UNCHANGED <<fs0, exists, exists0, par, kind, inputKind, inputFile, outDir, recursive,
                   stack, cur, pending, todo, visited>>

\* elif input_path.is_dir(): process_directory(input_path, output_dir, args.recursive)
\* os.walk starts with the input directory alone on its stack
MainDir ==
    /\ pc = "branch"
    /\ inputKind = "dir"
    /\ pc' = "walk"
    /\ stack' = <<0>>
    /\ UNCHANGED <<fs, fs0, exists, exists0, par, kind, inputKind, inputFile, outDir,
                   recursive, cur, pending, todo, visited, log>>

\* neither a file nor a directory: no branch is taken
MainOther ==
    /\ pc = "branch"
    /\ inputKind = "other"
    /\ pc' = "done"
    /\ UNCHANGED <<fs, fs0, exists, exists0, par, kind, inputKind, inputFile, outDir,
                   recursive, stack, cur, pending, todo, visited, log>>

(* ------------------------------ walker -------------------------------- *)
\* a walker that queues the listed subdirectories behind those already waiting
PushBreadthFirst(order, stk) == stk \o SelectSeq(order, LAMBDA d : kind[d] # "link")

\* a walker that descends into the first listed subdirectory only
PushFirstOnly(order, stk) ==
    IF order = <<>> THEN stk ELSE <<Head(order)>> \o stk

\* os.walk stacks the listed subdirectories so that the first listed is scanned
\* next; a symbolic link is listed but not stacked (followlinks is off)
PushSubdirs(order, stk) == SelectSeq(order, LAMBDA d : kind[d] # "link") \o stk

\* os.walk pops until a directory can be listed; an OSError from scandir is
\* ignored (onerror is None) and the directory skipped
RECURSIVE PopListable(_)
PopListable(stk) ==
    IF stk = <<>> THEN stk
    ELSE IF kind[Head(stk)] = "locked" THEN PopListable(Tail(stk))
    ELSE stk

Subdirs(d) == {c \in Dirs \ {0} : par[c] = d /\ c \in exists}

\* a walker that never breaks
ContinuesAlways(rec) == TRUE

\* if not recursive: break -- whether the loop asks os.walk for another directory
Continues(rec) == rec

\* for root, _, files in os.walk(input_dir): the generator is resumed and yields
\* the next directory with its listing, or is exhausted and the loop ends
WalkNext ==
    /\ pc = "walk"
    /\ todo = {}
    /\ cur = NoDir \/ Continues(recursive)
    /\ \E order \in Orders(pending) :
          LET stk == PopListable(PushSubdirs(order, stack))
          IN \/ /\ stk = <<>>
                /\ pc' = "done"
                /\ stack' = stk
                /\ UNCHANGED <<cur, pending, todo, visited>>
             \/ /\ stk # <<>>
                /\ cur' = Head(stk)
                /\ stack' = Tail(stk)
                /\ pending' = Subdirs(Head(stk))
                /\ todo' = FilesIn(fs, Head(stk))
                /\ visited' = Append(visited, Head(stk))
                /\ pc' = pc
    /\ UNCHANGED <<fs, fs0, exists, exists0, par, kind, inputKind, inputFile, outDir,
                   recursive, log>>

\* for file in files: process_file(Path(root) / file, output_dir)
ProcessFile ==
    /\ pc = "walk"
    /\ todo # {}
    /\ \E file \in todo :
          LET file_path == <<cur, file>>
          IN \E outcome \in Outcomes(fs[file_path], Handler(file)) :
                \E left \in SaveFailures(fs, OutputPath(file_path, outDir)) :
                   LET r == process_file(fs, file_path, outDir, outcome, left)
                   IN /\ fs' = r.fs
                      /\ log' = Append(log, r.rec)
                      /\ pc' = IF r.raised THEN "crashed" ELSE pc
                      /\ todo' = todo \ {file}
    /\ UNCHANGED <<fs0, exists, exists0, par, kind, inputKind, inputFile, outDir, recursive,
                   stack, cur, pending, visited>>

\* if not recursive: break
WalkBreak ==
    /\ pc = "walk"
    /\ todo = {}
    /\ cur # NoDir
    /\ ~Continues(recursive)
    /\ pc' = "done"
    /\ UNCHANGED <<fs, fs0, exists, exists0, par, kind, inputKind, inputFile, outDir,
                   recursive, stack, cur, pending, todo, visited, log>>

Next ==
    \/ MainMkdir
    \/ MainFile
    \/ MainDir
    \/ MainOther
    \/ WalkNext
    \/ ProcessFile
    \/ WalkBreak

Spec == Init /\ [][Next]_vars

\* the run is one sequential process: a step that can be taken is taken;
\* the walks of InitDeep and the single files of InitRoute
FairSpec == (InitDeep \/ InitRoute) /\ [][Next]_vars /\ WF_vars(Next)

(* ----------------------------- properties ----------------------------- *)
Range(s) == {s[i] : i \in DOMAIN s}

\* the place of directory d in the order of visits
VisitIndex(d) == CHOOSE k \in DOMAIN visited : visited[k] = d

\* the step dispatched a file: exactly one record is logged per dispatch
Dispatched == Len(log') = Len(log) + 1
NewRec == log'[Len(log')]

\* the files this run created or changed
Touched == {p \in DOMAIN fs : p \notin DOMAIN fs0 \/ fs[p] # fs0[p]}
(* ------------------------------ C1 ------------------------------------ *)
\* the handler each name of AllNames is to reach, written out
ExpectedRoute(name) ==
    CASE name \in {NamePdf, NamePdfUpper, NameTarPdf} -> "PDF"
      [] name = NameDocx -> "DOCX"
      [] name \in {NameJpg, NameJpeg, NamePng} -> "image"
      [] OTHER -> "unsupported"

\* C1: every dispatch goes to the handler of the file's lower-cased extension
\* (a.PDF and a.Jpg like a.pdf and a.jpg); a file of any other extension reaches
\* no handler: a warning is logged, no file is created or changed, and the run
\* goes on with the files that were left.
C1_RoutedByLowercasedExtension ==
    [][Dispatched =>
         LET name == NewRec.path[2]
         IN /\ NewRec.what = ExpectedRoute(name)
            /\ NewRec.level = "WARNING" <=> ExpectedRoute(name) = "unsupported"
            /\ ExpectedRoute(name) = "unsupported" =>
                  /\ fs' = fs
                  /\ pc' # "crashed"
                  /\ pc = "walk" => pc' = "walk" /\ todo' = todo \ {name}]_vars

\* a finished walk that warned about b.txt, changed nothing for it, and went on
\* to sanitize a.PDF with the PDF handler
C1_Witness ==
    /\ pc = "done"
    /\ \E i, j \in DOMAIN log :
          /\ i < j
          /\ log[i].level = "WARNING"
          /\ log[i].path[2] = NameTxt
          /\ <<outDir, NameTxt>> \notin DOMAIN fs
          /\ log[j].level = "INFO"
          /\ log[j].what = "PDF"
          /\ log[j].path[2] = NamePdfUpper

(* ------------------------------ C2 ------------------------------------ *)
\* C2 as stated: without recursion the files dispatched are exactly the files
\* directly inside the root, none of a subdirectory, and nothing is written for
\* a subdirectory's file.
C2_ExactlyTopLevel ==
    (inputKind = "dir" /\ ~recursive) =>
        /\ \A i \in DOMAIN log : log[i].path[1] = 0
        /\ \A p \in Touched : p[1] = outDir /\ <<0, p[2]>> \in DOMAIN fs0
        /\ pc = "done" =>
              {log[i].path : i \in DOMAIN log} = {p \in DOMAIN fs0 : p[1] = 0}

\* C2 amended: ... exactly the files directly inside the root when the root can
\* be listed, and none when listing it fails; in both cases no file of a
\* subdirectory is dispatched, no subdirectory is visited, and nothing is
\* written for a subdirectory's file.
C2_TopLevelOnly ==
    (inputKind = "dir" /\ ~recursive) =>
        /\ \A i \in DOMAIN log : log[i].path[1] = 0
        /\ \A k \in DOMAIN visited : visited[k] = 0
        /\ \A p \in Touched : p[1] = outDir /\ <<0, p[2]>> \in DOMAIN fs0
        /\ pc = "done" =>
              {log[i].path : i \in DOMAIN log} =
                  IF kind[0] = "locked" THEN {}
                  ELSE {p \in DOMAIN fs0 : p[1] = 0}

\* a finished run without recursion that dispatched a root file and left a file
\* two levels down alone
C2_Witness ==
    /\ inputKind = "dir" /\ ~recursive /\ pc = "done"
    /\ log # <<>>
    /\ \E p \in DOMAIN fs0 : Depth(p[1]) = 2 /\ p[1] \in Dirs
                             /\ <<outDir, p[2]>> \notin DOMAIN fs
(* ------------------------------ C3 ------------------------------------ *)
FilesUnder(d) == {p \in DOMAIN fs0 : p[1] = d}
WasDispatched(p) == \E i \in DOMAIN log : log[i].path = p

\* C3 as stated: a recursive walk ends with every subdirectory of the root
\* visited and every file in it dispatched.
C3_EverySubdirectory ==
    (pc = "done" /\ inputKind = "dir" /\ recursive) =>
        \A d \in Dirs \cap exists :
            /\ d \in Range(visited)
            /\ \A p \in FilesUnder(d) : WasDispatched(p)

\* the directories os.walk gets to: those it can list, reached from the root
\* through directories it can list that are not symbolic links
RECURSIVE Walkable(_)
Walkable(d) ==
    IF d = 0 THEN kind[0] # "locked"
    ELSE d \in exists /\ kind[d] = "dir" /\ Walkable(par[d])

WalkComplete ==
    /\ pc = "done"
    /\ \A d \in Dirs : d \in Range(visited) <=> Walkable(d)
    /\ \A d \in Range(visited) : \A p \in FilesUnder(d) :
          \E i \in DOMAIN log :
             /\ log[i].path = p
             /\ log[i].level = "INFO" => <<outDir, p[2]>> \in DOMAIN fs

\* C3 amended: a recursive walk eventually ends, having visited every directory
\* at every depth that it can list and that hangs from the root by directories
\* that can be listed and are not symbolic links (a linked or unlistable
\* directory is skipped without a word, with all below it), and having
\* dispatched every file of the visited directories; a file whose handler
\* succeeded is in the flattened output directory under its base name.
C3_EveryWalkableSubdirectory ==
    (pc = "walk" /\ recursive) ~> WalkComplete

\* a finished recursive walk that sanitized a file three levels down
C3_Witness ==
    /\ pc = "done" /\ recursive /\ inputKind = "dir"
    /\ \E i \in DOMAIN log :
          /\ Depth(log[i].path[1]) = 3
          /\ log[i].level = "INFO"
          /\ <<outDir, log[i].path[2]>> \in DOMAIN fs
          /\ fs[<<outDir, log[i].path[2]>>].body = fs0[log[i].path].body
(* ------------------------------ C4 ------------------------------------ *)
\* C4: a handler's failure ends nothing but that handler call. The step that
\* logs the error leaves main where it was (a lone input file: done), takes
\* only the failed file off the files still to dispatch and leaves the walk's
\* stack and listing alone; and a run that has dispatched a file never
\* crashes, and ends with every file of every visited directory dispatched.
C4_FailureNeverAborts ==
    /\ [][(Dispatched /\ NewRec.level = "ERROR") =>
            /\ pc' = (IF pc = "branch" THEN "done" ELSE pc)
            /\ pc = "walk" => todo' = todo \ {NewRec.path[2]}
            /\ <<stack, cur, pending, visited>>' = <<stack, cur, pending, visited>>]_vars
    /\ [](log # <<>> => pc # "crashed")
    /\ []((pc = "done" /\ inputKind = "dir") =>
             \A d \in Range(visited) : \A p \in FilesUnder(d) : WasDispatched(p))

\* a finished walk in which a handler failed and a later file was dispatched
C4_Witness ==
    /\ pc = "done"
    /\ \E i, j \in DOMAIN log : i < j /\ log[i].level = "ERROR" /\ log[j].level = "INFO"

(* ------------------------------ C5 ------------------------------------ *)
\* C5 as stated: a handler call ends in one of two ways, success with the output
\* written or failure with an error logged and no file written: a step that
\* logs a handler's error creates and changes no file.
C5_FailureWritesNothing ==
    [][(Dispatched /\ NewRec.level = "ERROR") => fs' = fs]_vars

(* ------------------------------ C6 ------------------------------------ *)
\* C6: main makes the output directory before anything else: the step from the
\* start either ends main (the path is a file) or leaves the directory and all
\* its ancestors existing, and changes no file and removes no directory; when
\* the directory existed already the step raises nothing and changes nothing;
\* and every dispatch finds the directory and its ancestors in place.
C6_OutputDirFirst ==
    [][/\ pc = "start" =>
            /\ fs' = fs
            /\ exists \subseteq exists'
            /\ pc' = "crashed" \/ ({outDir} \cup Ancestors(outDir)) \subseteq exists'
            /\ outDir \in exists => pc' = "branch" /\ exists' = exists
       /\ Dispatched => ({outDir} \cup Ancestors(outDir)) \subseteq exists
       /\ Dispatched => pc # "start"]_vars

\* a file sanitized into an output directory that main had to make together with
\* its parent
C6_Witness ==
    /\ outDir \notin exists0
    /\ Parent(outDir) \notin exists0
    /\ \E i \in DOMAIN log :
          /\ log[i].level = "INFO"
          /\ <<outDir, log[i].path[2]>> \in DOMAIN fs
(* ------------------------------ C7 ------------------------------------ *)
\* C7: a dispatch writes nowhere but at the output directory joined with the
\* source's base name, whatever directory the source lies in; a successful one
\* leaves there the source's content, whatever an earlier file of the same base
\* name had left (so the output directory holds one file per base name, that of
\* the last one written).
C7_FlattenedOutputPath ==
    [][Dispatched =>
         LET src == NewRec.path
             dst == <<outDir, src[2]>>
         IN /\ \A p \in (DOMAIN fs) \cup (DOMAIN fs') :
                  p # dst => p \in DOMAIN fs /\ p \in DOMAIN fs' /\ fs'[p] = fs[p]
            /\ NewRec.level = "INFO" =>
                  /\ dst \in DOMAIN fs'
                  /\ fs'[dst].fmt = fs[src].fmt
                  /\ fs'[dst].body = fs[src].body]_vars

\* two files of one base name in different directories, both sanitized: the
\* output directory holds the later one's content, not the earlier one's
C7_Witness ==
    \E i, j \in DOMAIN log :
       /\ i < j
       /\ log[i].level = "INFO" /\ log[j].level = "INFO"
       /\ log[i].path[2] = log[j].path[2]
       /\ log[i].path[1] # log[j].path[1]
       /\ fs[<<outDir, log[j].path[2]>>].body = fs0[log[j].path].body
       /\ fs[<<outDir, log[j].path[2]>>].body # fs0[log[i].path].body
       /\ Cardinality({p \in DOMAIN fs : p[1] = outDir}) = 1

(* ------------------------------ C8 ------------------------------------ *)
\* C8: a PDF that the handler processes successfully comes out with its pages,
\* all of them and in order, and with no document-info entries, whatever its
\* info dictionary held.
C8_PdfPagesKeptInfoDropped ==
    [][(Dispatched /\ NewRec.level = "INFO" /\ NewRec.what = "PDF") =>
         LET src == NewRec.path
             dst == <<outDir, src[2]>>
         IN /\ fs'[dst].fmt = "pdf"
            /\ fs'[dst].body = fs[src].body
            /\ fs'[dst].meta = {}]_vars

\* a sanitized PDF of MaxPages pages out of order whose source had info entries
C8_Witness ==
    \E i \in DOMAIN log :
       /\ log[i].level = "INFO" /\ log[i].what = "PDF"
       /\ fs0[log[i].path].meta = {"author", "title"}
       /\ Len(fs0[log[i].path].body) = MaxPages
       /\ fs0[log[i].path].body[1] > fs0[log[i].path].body[2]
       /\ fs[<<outDir, log[i].path[2]>>].body = fs0[log[i].path].body
       /\ fs[<<outDir, log[i].path[2]>>].meta = {}

(* ------------------------------ C9 ------------------------------------ *)
\* C9 as stated: the walk goes level by level: when a file of a directory is
\* dispatched, every directory of a smaller depth that the walk visits has been
\* visited.
C9_BreadthFirst ==
    inputKind = "dir" =>
       \A i \in DOMAIN log : \A k \in DOMAIN visited :
          Depth(visited[k]) < Depth(log[i].path[1]) =>
              k < VisitIndex(log[i].path[1])

\* C9 amended: the walk goes top-down and depth-first (pre-order): a directory is
\* visited after its parent, and all that is visited below a directory is
\* visited before anything else is; files are dispatched one at a time while
\* their directory is the one just visited, so in the order of the visits.
C9_DepthFirstPreOrder ==
    inputKind = "dir" =>
       /\ \A j \in DOMAIN visited :
             visited[j] # 0 => \E i \in 1..(j - 1) : visited[i] = par[visited[j]]
       /\ \A i, k, j \in DOMAIN visited :
             (i < k /\ k < j /\ visited[i] \in Ancestors(visited[j]))
                => visited[i] \in Ancestors(visited[k])
       /\ \A i, j \in DOMAIN visited : i # j => visited[i] # visited[j]
       /\ \A a \in DOMAIN log : log[a].path[1] \in Range(visited)
       /\ \A a, b \in DOMAIN log :
             a < b => VisitIndex(log[a].path[1]) <= VisitIndex(log[b].path[1])
       /\ todo # {} => cur = visited[Len(visited)]
       /\ todo \subseteq FilesIn(fs, cur)

\* a walk that dispatched a file two levels down and then visited a directory
\* one level down
C9_Witness ==
    /\ inputKind = "dir"
    /\ \E a \in DOMAIN log : \E k \in DOMAIN visited :
          /\ Depth(log[a].path[1]) = 2
          /\ Depth(visited[k]) = 1
          /\ VisitIndex(log[a].path[1]) < k

(* ------------------------------ C10 ----------------------------------- *)
\* C10 as stated: a run never writes into its own input: every file that was
\* dispatched was there before the run and is as it was.
C10_SourcesUntouched ==
    \A i \in DOMAIN log :
       /\ log[i].path \in DOMAIN fs0
       /\ fs[log[i].path] = fs0[log[i].path]
====
